---- MODULE Spec2Model ----
(***************************************************************************)
(* Booking / payment / availability workflow of the equipment rental       *)
(* server (server/routes.ts, server/storage.ts, server/payment.ts).        *)
(*                                                                         *)
(* Every HTTP handler is a process running in a request slot.  A request   *)
(* is first received (its body read), then the handler advances one        *)
(* awaited storage or gateway operation at a time: the code between two    *)
(* awaits runs without interruption on the single event loop, while        *)
(* operations of other requests may run between any two awaits.            *)
(***************************************************************************)
EXTENDS Integers, Sequences, FiniteSets, TLC

(* ---------------------------- bounds ---------------------------------- *)
\* Booking rows the store may hold.
MaxBookings == 2
\* Latest calendar day a request may name (days are numbered from 0).
MaxDay == 1
\* Receipts the gateway is asked for.
MaxReceipts == 2
\* Equipment rows the store may hold.
MaxEquipment == 2
\* Times of day a timestamp may name: timestamps are finer than the day
\* grid that getBookingsByDateRange normalises to.
TicksPerDay == 2

(* --------------------------- fixtures ---------------------------------- *)
\* Timestamps are milliseconds since the epoch (Date.getTime()); day 0
\* starts at 0.  1000 * 3600 * 24 milliseconds make a day.
MsPerDay == 86400000

Procs == {1, 2}
EquipIds == {1}
EquipIdInputs == {1, 2}
BookingIds == 1..MaxBookings
BookingIdInputs == 0..MaxBookings
\* The dates a booking request names: midnights, and -1 for a date string
\* that z.coerce.date() cannot parse.
DateInputs == {d * MsPerDay : d \in 0..MaxDay} \cup {-1}

Anonymous == [id |-> 0, isAdmin |-> FALSE]
Owner == [id |-> 1, isAdmin |-> FALSE]
Renter == [id |-> 2, isAdmin |-> FALSE]
Admin == [id |-> 3, isAdmin |-> TRUE]

\* Payment ids the gateway issues.
PaymentIds == {"pay_1"}
\* process.env.RAZORPAY_KEY_SECRET.
KeySecret == "key_secret"

Idle == [kind |-> "none"]

VARIABLES
  equipment,      \* equipment table: id -> row
  equipmentIdSeq, \* last id the serial of equipment.id has issued
  bookings,       \* bookings table: row i has id i
  orders,         \* orders minted by the payment gateway so far
  receipts,       \* receipts generated per booking id
  reviews,        \* reviews table: row i has id i
  pc,             \* per request slot: the awaited operation it is at
  req,            \* per request slot: the request received and the handler's locals
  resp            \* per request slot: HTTP status sent (0: none yet)

vars == <<equipment, equipmentIdSeq, bookings, orders, receipts, reviews, pc, req, resp>>

(* ------------------------- storage layer ------------------------------- *)
\* The place of an equipment row that deleteEquipment has removed: ids are
\* serial and never used again.
DeletedEquipment == [ownerId |-> 0, dailyRate |-> 0, availability |-> FALSE]

EquipmentExists(id) == id \in DOMAIN equipment /\ equipment[id].ownerId # 0

\* The place of a booking row that deleteEquipmentBookings has removed: ids
\* are serial and never used again.
DeletedBooking ==
  [equipmentId |-> 0, userId |-> 0, startDate |-> 0, endDate |-> 0,
   totalPrice |-> 0, status |-> "deleted", razorpayOrderId |-> 0,
   razorpayPaymentId |-> "none", isRated |-> FALSE, createdAt |-> 0]

BookingExists(id) == id \in DOMAIN bookings /\ bookings[id].status # "deleted"

\* storage.updateEquipment(id, {availability}) on an existing row.
SetAvailability(id, flag) == [equipment EXCEPT ![id].availability = flag]

\* Start of the UTC day of t (setUTCHours(0,0,0,0)).
DayStart(t) == (t \div MsPerDay) * MsPerDay

\* Last millisecond of the UTC day of t (setUTCHours(23,59,59,999)).
DayEnd(t) == DayStart(t) + MsPerDay - 1

\* The WHERE clause of getBookingsByDateRange for one row.
InDateRange(b, start, end) ==
  \/ (b.startDate >= start /\ b.startDate <= end)
  \/ (b.endDate >= start /\ b.endDate <= end)
  \/ (b.startDate <= start /\ b.endDate >= end)

\* Ids of the rows getBookingsByDateRange returns.
getBookingsByDateRange(equipmentId, startDate, endDate) ==
  { i \in DOMAIN bookings :
      /\ bookings[i].equipmentId = equipmentId
      /\ InDateRange(bookings[i], DayStart(startDate), DayEnd(endDate)) }

IsHolding(status) == status = "paid" \/ status = "awaiting_payment"

\* The second half of checkEquipmentAvailability: no conflicting booking.
NoConflictingBooking(equipmentId, startDate, endDate) ==
  \A i \in getBookingsByDateRange(equipmentId, startDate, endDate) :
     ~IsHolding(bookings[i].status)

\* The first half of checkEquipmentAvailability: the row exists and its
\* flag is set.
EquipmentAvailable(equipmentId) ==
  EquipmentExists(equipmentId) /\ equipment[equipmentId].availability

\* checkEquipmentAvailability(equipmentId, startDate, endDate) on one state
\* of the tables.
checkEquipmentAvailability(equipmentId, startDate, endDate) ==
  /\ EquipmentAvailable(equipmentId)
  /\ NoConflictingBooking(equipmentId, startDate, endDate)

(* --------------------------- pure helpers ------------------------------ *)
\* Math.ceil(a / b) for b > 0.
CeilDiv(a, b) == -((-a) \div b)

Max(a, b) == IF a >= b THEN a ELSE b

\* A duration that counts the nights rather than the days.
TotalDaysExclusive(startDate, endDate) ==
  Max(1, CeilDiv(endDate - startDate, MsPerDay))

\* totalDays of POST /api/bookings.
TotalDays(startDate, endDate) ==
  Max(1, CeilDiv(endDate - startDate, MsPerDay) + 1)

TotalAmount(dailyRate, startDate, endDate) ==
  dailyRate * TotalDays(startDate, endDate)

(* --------------------------- request slots ----------------------------- *)
\* A request from the set requests arrives in the free slot p.
Receive(p, requests, label) ==
  /\ pc[p] = "idle"
  /\ \E r \in requests : req' = [req EXCEPT ![p] = r]
  /\ pc' = [pc EXCEPT ![p] = label]
  /\ resp' = [resp EXCEPT ![p] = 0]
  /\ UNCHANGED <<equipment, bookings, orders, receipts, reviews, equipmentIdSeq>>

\* The handler in slot p sends its response.
Finish(p, status) ==
  /\ pc' = [pc EXCEPT ![p] = "done"]
  /\ resp' = [resp EXCEPT ![p] = status]
  /\ UNCHANGED req

\* The handler in slot p goes on to its next awaited operation.
Goto(p, label, locals) ==
  /\ pc' = [pc EXCEPT ![p] = label]
  /\ resp' = [resp EXCEPT ![p] = 0]
  /\ req' = [req EXCEPT ![p] = locals]

\* The response of slot p has reached the caller: the slot is free again.
Return(p) ==
  /\ pc[p] = "done"
  /\ pc' = [pc EXCEPT ![p] = "idle"]
  /\ resp' = [resp EXCEPT ![p] = 0]
  /\ req' = [req EXCEPT ![p] = Idle]
  /\ UNCHANGED <<equipment, bookings, orders, receipts, reviews, equipmentIdSeq>>

\* Booking rows that requests in flight may still insert.
PendingInserts ==
  Cardinality({q \in Procs :
     pc[q] \in {"create_start", "create_check_equipment", "create_check_bookings",
                "create_insert"}})

RECURSIVE SumOver(_, _)
SumOver(f, S) ==
  IF S = {} THEN 0
  ELSE LET x == CHOOSE y \in S : TRUE IN f[x] + SumOver(f, S \ {x})

\* Receipts that requests in flight may still ask for.
PendingReceipts ==
  Cardinality({q \in Procs :
     pc[q] \in {"webhook_start", "webhook_lock", "webhook_receipt",
                "receipt_start", "receipt_generate"}})

(* ----------------------- POST /api/bookings ---------------------------- *)
\* Request bodies.  insertBookingSchema lets razorpayOrderId and
\* razorpayPaymentId through when the body carries them (0 and "none":
\* the body does not); userId, status and totalPrice are overwritten by the
\* handler.
CreateRequests ==
  [kind : {"create"}, userId : {Anonymous.id, Renter.id},
   equipmentId : EquipIdInputs, startDate : DateInputs, endDate : DateInputs,
   razorpayOrderId : {0, 7}, razorpayPaymentId : {"none"} \cup PaymentIds,
   totalAmount : {0}, createdAt : {0}, bookingId : {0}, orderId : {0}]

CreateReceive(p) ==
  /\ Len(bookings) + PendingInserts < MaxBookings
  /\ Receive(p, CreateRequests, "create_start")

\* Authentication, schema validation, the first getEquipment and the price.
CreateStart(p) ==
  /\ pc[p] = "create_start"
  /\ LET r == req[p]
         e == r.equipmentId
     IN IF r.userId = 0 THEN Finish(p, 401)
        ELSE IF r.startDate = -1 \/ r.endDate = -1 THEN Finish(p, 400)
        ELSE IF ~EquipmentExists(e) THEN Finish(p, 404)
        ELSE IF ~equipment[e].availability THEN Finish(p, 400)
        ELSE Goto(p, "create_check_equipment",
               [r EXCEPT !.totalAmount =
                  TotalAmount(equipment[e].dailyRate, r.startDate, r.endDate)])
  /\ UNCHANGED <<equipment, bookings, orders, receipts, reviews, equipmentIdSeq>>

\* checkEquipmentAvailability: its own getEquipment.
CreateCheckEquipment(p) ==
  /\ pc[p] = "create_check_equipment"
  /\ LET e == req[p].equipmentId
     IN IF ~EquipmentAvailable(e)
        THEN Finish(p, 400)
        ELSE Goto(p, "create_check_bookings", req[p])
  /\ UNCHANGED <<equipment, bookings, orders, receipts, reviews, equipmentIdSeq>>

\* The call of storage.createBooking: createdAt is taken by new Date()
\* when the call is made, before the insert is awaited.  The clock does
\* not run backwards and counts milliseconds: the value is later than every
\* createdAt taken so far (latest), or it is that same millisecond again.
CallCreateBooking(p) ==
  LET taken == {bookings[i].createdAt : i \in DOMAIN bookings}
                 \cup {req[q].createdAt : q \in {x \in Procs : req[x].kind = "create"}}
                 \cup {0}
      latest == CHOOSE m \in taken : \A t \in taken : t <= m
  IN \E now \in {latest + 1} \cup ({latest} \ {0}) :
        Goto(p, "create_insert", [req[p] EXCEPT !.createdAt = now])

\* A Create that does not look at the bookings.
CreateCheckBookingsSkipped(p) ==
  /\ pc[p] = "create_check_bookings"
  /\ CallCreateBooking(p)
  /\ UNCHANGED <<equipment, bookings, orders, receipts, reviews, equipmentIdSeq>>

\* checkEquipmentAvailability: getBookingsByDateRange and the status test;
\* when no booking conflicts the handler goes on to call createBooking.
CreateCheckBookings(p) ==
  /\ pc[p] = "create_check_bookings"
  /\ IF NoConflictingBooking(req[p].equipmentId, req[p].startDate, req[p].endDate)
     THEN CallCreateBooking(p)
     ELSE Finish(p, 400)
  /\ UNCHANGED <<equipment, bookings, orders, receipts, reviews, equipmentIdSeq>>

\* The row storage.createBooking inserts for POST /api/bookings: parsed.data
\* with the price, the dates and the status of the handler.
NewBooking(r) ==
  [equipmentId |-> r.equipmentId, userId |-> r.userId,
   startDate |-> r.startDate, endDate |-> r.endDate,
   totalPrice |-> r.totalAmount, status |-> "pending",
   razorpayOrderId |-> r.razorpayOrderId,
   razorpayPaymentId |-> r.razorpayPaymentId, isRated |-> FALSE,
   createdAt |-> r.createdAt]

\* storage.createBooking.
CreateInsert(p) ==
  /\ pc[p] = "create_insert"
  /\ bookings' = Append(bookings, NewBooking(req[p]))
  /\ Goto(p, "create_lock", [req[p] EXCEPT !.bookingId = Len(bookings) + 1])
  /\ UNCHANGED <<equipment, orders, receipts, reviews, equipmentIdSeq>>

\* A Create that leaves the flag as it found it.
LockEquipmentSkipped(e) == equipment

\* The eager lock: the flag written once the row is inserted.
LockEquipment(e) == SetAvailability(e, FALSE)

\* storage.updateEquipment(equipmentId, {availability: false}), then the
\* call of createPaymentSession, which throws before it awaits anything
\* when the amount is not positive.
CreateLock(p) ==
  /\ pc[p] = "create_lock"
  /\ LET e == req[p].equipmentId
     IN IF EquipmentExists(e)
        THEN /\ equipment' = LockEquipment(e)
             /\ Goto(p, IF req[p].totalAmount > 0 THEN "create_order" ELSE "create_revert",
                     req[p])
        ELSE UNCHANGED equipment /\ Goto(p, "create_revert", req[p])
  /\ UNCHANGED <<bookings, orders, receipts, reviews, equipmentIdSeq>>

\* createPaymentSession: the gateway mints an order or fails.
CreateOrder(p) ==
  /\ pc[p] = "create_order"
  /\ \E gatewayOk \in BOOLEAN :
       IF gatewayOk
       THEN /\ orders' = orders + 1
            /\ Goto(p, "create_await", [req[p] EXCEPT !.orderId = orders + 1])
       ELSE /\ UNCHANGED orders
            /\ Goto(p, "create_revert", req[p])
  /\ UNCHANGED <<equipment, bookings, receipts, reviews, equipmentIdSeq>>

\* storage.updateBooking(id, {status: 'awaiting_payment', razorpayOrderId}).
AwaitPayment(b, orderId) ==
  [bookings EXCEPT ![b].status = "awaiting_payment", ![b].razorpayOrderId = orderId]

CreateAwait(p) ==
  /\ pc[p] = "create_await"
  /\ LET b == req[p].bookingId
     IN IF BookingExists(b)
        THEN bookings' = AwaitPayment(b, req[p].orderId) /\ Finish(p, 201)
        ELSE UNCHANGED bookings /\ Goto(p, "create_revert", req[p])
  /\ UNCHANGED <<equipment, orders, receipts, reviews, equipmentIdSeq>>

\* A compensation that leaves the flag locked.
RevertEquipmentSkipped(e) == equipment

\* The compensation of the catch block: the flag it writes back.
RevertEquipment(e) == SetAvailability(e, TRUE)

\* catch (paymentError): storage.updateEquipment(equipmentId, {availability: true}).
CreateRevert(p) ==
  /\ pc[p] = "create_revert"
  /\ LET e == req[p].equipmentId
     IN IF EquipmentExists(e)
        THEN equipment' = RevertEquipment(e) /\ Goto(p, "create_fail", req[p])
        ELSE UNCHANGED equipment /\ Finish(p, 500)
  /\ UNCHANGED <<bookings, orders, receipts, reviews, equipmentIdSeq>>

\* storage.updateBooking(id, {status: 'payment_failed'}).
FailBooking(b) == [bookings EXCEPT ![b].status = "payment_failed"]

\* catch (paymentError): the booking update and the 400 answer.
CreateFail(p) ==
  /\ pc[p] = "create_fail"
  /\ LET b == req[p].bookingId
     IN IF BookingExists(b)
        THEN bookings' = FailBooking(b) /\ Finish(p, 400)
        ELSE UNCHANGED bookings /\ Finish(p, 500)
  /\ UNCHANGED <<equipment, orders, receipts, reviews, equipmentIdSeq>>

(* ------------------ POST /api/bookings/verify-payment ------------------ *)
\* HMAC-SHA256(key, message), hex encoded: digests are equal only for equal
\* keys and equal messages.
Hmac(key, message) == <<key, message>>

\* The signature header or field is absent.
NoSignature == <<>>

\* A verification that compares the signed message but not the key.
verifyPaymentSignatureAnyKey(orderId, paymentId, signature) ==
  signature # NoSignature /\ signature[2] = <<orderId, paymentId>>

\* verifyPaymentSignature(orderId, paymentId, signature).
verifyPaymentSignature(orderId, paymentId, signature) ==
  signature = Hmac(KeySecret, <<orderId, paymentId>>)

\* Signatures a client may present with an order id and a payment id: the
\* gateway's, one made with another key, one made for another payment.
PaymentSignatures(o, pay) ==
  {Hmac(KeySecret, <<o, pay>>), Hmac("other_key", <<o, pay>>),
   Hmac(KeySecret, <<o, "pay_0">>)}

OrderIds == 1..MaxBookings

\* Request bodies: one that lacks a field, and complete ones.
VerifyRequests ==
  {[kind |-> "verify", complete |-> FALSE, bookingId |-> 0, orderId |-> 0,
    paymentId |-> "none", signature |-> NoSignature, equipmentId |-> 0]}
  \cup
  {[kind |-> "verify", complete |-> TRUE, bookingId |-> b, orderId |-> o,
    paymentId |-> pay, signature |-> sig, equipmentId |-> 0] :
     <<b, o, pay, sig>> \in
       {t \in BookingIds \X OrderIds \X PaymentIds \X
              UNION {PaymentSignatures(o, pay) : o \in OrderIds, pay \in PaymentIds} :
          t[4] \in PaymentSignatures(t[2], t[3])}}

VerifyReceive(p) == Receive(p, VerifyRequests, "verify_start")

\* Field check, getBooking, the already-paid check and the signature check.
VerifyStart(p) ==
  /\ pc[p] = "verify_start"
  /\ LET r == req[p]
         b == r.bookingId
     IN IF ~r.complete THEN Finish(p, 400)
        ELSE IF ~BookingExists(b) THEN Finish(p, 404)
        ELSE IF bookings[b].status = "paid" THEN Finish(p, 200)
        ELSE Goto(p, IF verifyPaymentSignature(r.orderId, r.paymentId, r.signature)
                     THEN "verify_paid" ELSE "verify_restore",
               [r EXCEPT !.equipmentId = bookings[b].equipmentId])
  /\ UNCHANGED <<equipment, bookings, orders, receipts, reviews, equipmentIdSeq>>

\* The flag written when the signature does not verify.
RestoreEquipment(e) == SetAvailability(e, TRUE)

\* Invalid signature: storage.updateEquipment(equipmentId, {availability: true}).
VerifyRestore(p) ==
  /\ pc[p] = "verify_restore"
  /\ LET e == req[p].equipmentId
     IN IF EquipmentExists(e)
        THEN equipment' = RestoreEquipment(e) /\ Finish(p, 400)
        ELSE UNCHANGED equipment /\ Finish(p, 500)
  /\ UNCHANGED <<bookings, orders, receipts, reviews, equipmentIdSeq>>

\* A booking update that records the status but not the payment.
MarkPaidNoPayment(b, paymentId) ==
  [bookings EXCEPT ![b].status = "paid"]

\* storage.updateBooking(id, {status: 'paid', razorpayPaymentId}).
MarkPaid(b, paymentId) ==
  [bookings EXCEPT ![b].status = "paid", ![b].razorpayPaymentId = paymentId]

\* Valid signature: the booking update.
VerifyPaid(p) ==
  /\ pc[p] = "verify_paid"
  /\ LET b == req[p].bookingId
     IN IF BookingExists(b)
        THEN bookings' = MarkPaid(b, req[p].paymentId) /\ Goto(p, "verify_lock", req[p])
        ELSE UNCHANGED bookings /\ Finish(p, 500)
  /\ UNCHANGED <<equipment, orders, receipts, reviews, equipmentIdSeq>>

\* A Confirm that leaves the flag as it found it.
ConfirmEquipmentSkipped(e) == equipment

\* The flag a Confirm writes after the booking update.
ConfirmEquipment(e) == SetAvailability(e, FALSE)

\* Valid signature: storage.updateEquipment(equipmentId, {availability: false}).
VerifyLock(p) ==
  /\ pc[p] = "verify_lock"
  /\ LET e == req[p].equipmentId
     IN IF EquipmentExists(e)
        THEN equipment' = ConfirmEquipment(e) /\ Finish(p, 200)
        ELSE UNCHANGED equipment /\ Finish(p, 500)
  /\ UNCHANGED <<bookings, orders, receipts, reviews, equipmentIdSeq>>

(* -------------------- POST /api/webhooks/razorpay ---------------------- *)
\* Events as the gateway sends them: the payment sits under
\* payload.payment.entity, whose notes name the booking (notesBookingId);
\* payload.payment has no status, order_id or id of its own.
GatewayEvents ==
  [event : {"payment.captured", "payment.failed", "order.paid"},
   hasPayment : {TRUE}, status : {"none"}, order_id : {0},
   id : {"none"}, notesBookingId : BookingIds]

\* Events that carry status, order_id and id directly on payload.payment.
\* order_id 0 stands for any value that is no booking id.
FlatEvents ==
  [event : {"payment.captured"}, hasPayment : {TRUE}, status : {"captured"},
   order_id : BookingIdInputs, id : PaymentIds \cup {"none"}, notesBookingId : {0}]
  \cup
  [event : {"payment.failed"}, hasPayment : {TRUE}, status : {"failed"},
   order_id : BookingIdInputs, id : {"none"}, notesBookingId : {0}]
  \cup
  [event : {"order.paid"}, hasPayment : {TRUE}, status : {"created"},
   order_id : {0}, id : {"none"}, notesBookingId : {0}]

\* The events of both layouts, and an event without payload.payment.
Events ==
  GatewayEvents \cup FlatEvents
    \cup {[event |-> "order.paid", hasPayment |-> FALSE, status |-> "none",
           order_id |-> 0, id |-> "none", notesBookingId |-> 0]}

\* Another body than the one signed.
Tampered(e) ==
  [e EXCEPT !.event = IF e.event = "order.paid" THEN "payment.captured" ELSE "order.paid"]

\* x-razorpay-signature headers a delivery of body e may carry.
SignatureHeaders(e) ==
  {NoSignature, Hmac("whsec", e), Hmac("other_key", e), Hmac("whsec", Tampered(e))}

\* Deliveries.  secret is process.env.RAZORPAY_WEBHOOK_SECRET as the delivery
\* finds it ("none": unset).  body is req.body as the handler finds it: the
\* application's express.json() has parsed the JSON text before the
\* route's express.raw() runs, which then leaves req.body alone, so the
\* handler never holds the bytes that were sent.  "object": the text was a
\* JSON object, as the gateway sends it.  "array": the text was a JSON
\* array of strings that, joined by commas, spell the JSON text of the
\* event.
WebhookRequests ==
  {[kind |-> "webhook", secret |-> "whsec", signature |-> sig, body |-> bd,
    event |-> e, bookingId |-> 0, paymentId |-> "none", equipmentId |-> 0] :
     <<e, sig, bd>> \in {t \in Events \X (UNION {SignatureHeaders(e) : e \in Events})
                                  \X {"object", "array"} :
                           t[2] \in SignatureHeaders(t[1])}}
  \cup
  {[kind |-> "webhook", secret |-> "none", signature |-> NoSignature, body |-> bd,
    event |-> e, bookingId |-> 0, paymentId |-> "none", equipmentId |-> 0] :
     <<e, bd>> \in Events \X {"object", "array"}}

\* A signature block that only asks for the header to be present.
WebhookSignaturePresent(r) ==
  r.secret = "none" \/ r.signature # NoSignature

\* The signature block of the route: TRUE when the request passes it.  With
\* a secret configured the header must be present and equal the HMAC of
\* req.body; createHmac().update(req.body) throws when req.body is neither
\* a string nor bytes.
WebhookSignatureOk(r) ==
  \/ r.secret = "none"
  \/ /\ r.signature # NoSignature
     /\ r.body \notin {"object", "array"}
     /\ r.signature = Hmac(r.secret, r.event)

\* handleWebhookEvent of routes.ts: the result's status ("null" for null),
\* bookingId and paymentId.
handleWebhookEvent(e) ==
  IF e.status = "captured"
  THEN [status |-> "success", bookingId |-> e.order_id, paymentId |-> e.id]
  ELSE IF e.status = "failed"
  THEN [status |-> "failed", bookingId |-> e.order_id, paymentId |-> "none"]
  ELSE [status |-> "null", bookingId |-> 0, paymentId |-> "none"]

WebhookReceive(p) ==
  /\ SumOver(receipts, BookingIds) + PendingReceipts < MaxReceipts
  /\ Receive(p, WebhookRequests, "webhook_start")

\* The signature block, JSON.parse(req.body.toString()), handleWebhookEvent
\* and the booking update of the branch taken.  The text of a parsed object
\* is "[object Object]", which JSON.parse refuses; the text of an array is
\* its elements joined by commas.  Whatever throws is answered 400.
WebhookStart(p) ==
  /\ pc[p] = "webhook_start"
  /\ LET r == req[p]
         e == r.event
         result == handleWebhookEvent(e)
         b == result.bookingId
         locals == [r EXCEPT !.bookingId = b, !.paymentId = result.paymentId,
                             !.equipmentId = IF BookingExists(b)
                                             THEN bookings[b].equipmentId ELSE 0]
     IN IF ~WebhookSignatureOk(r)
        THEN UNCHANGED bookings /\ Finish(p, 400)
        ELSE IF r.body = "object"
        THEN UNCHANGED bookings /\ Finish(p, 400)
        ELSE IF ~e.hasPayment
        THEN UNCHANGED bookings /\ Finish(p, 400)
        ELSE IF result.status = "success" /\ result.paymentId # "none"
        THEN IF BookingExists(b)
             THEN bookings' = MarkPaid(b, result.paymentId) /\ Goto(p, "webhook_lock", locals)
             ELSE UNCHANGED bookings /\ Finish(p, 400)
        ELSE IF result.status = "failed"
        THEN IF BookingExists(b)
             THEN bookings' = FailBooking(b) /\ Goto(p, "webhook_release", locals)
             ELSE UNCHANGED bookings /\ Finish(p, 400)
        ELSE UNCHANGED bookings /\ Finish(p, 200)
  /\ UNCHANGED <<equipment, orders, receipts, reviews, equipmentIdSeq>>

\* Success branch: storage.updateEquipment(equipmentId, {availability: false}).
WebhookLock(p) ==
  /\ pc[p] = "webhook_lock"
  /\ LET e == req[p].equipmentId
     IN IF EquipmentExists(e)
        THEN equipment' = ConfirmEquipment(e) /\ Goto(p, "webhook_receipt", req[p])
        ELSE UNCHANGED equipment /\ Finish(p, 400)
  /\ UNCHANGED <<bookings, orders, receipts, reviews, equipmentIdSeq>>

\* Success branch: generateReceipt(bookingId, paymentId); the gateway's
\* payments.fetch answers or fails.
WebhookReceipt(p) ==
  /\ pc[p] = "webhook_receipt"
  /\ \E gatewayOk \in BOOLEAN :
       IF gatewayOk
       THEN /\ receipts' = [receipts EXCEPT ![req[p].bookingId] = @ + 1]
            /\ Finish(p, 200)
       ELSE /\ UNCHANGED receipts
            /\ Finish(p, 400)
  /\ UNCHANGED <<equipment, bookings, orders, reviews, equipmentIdSeq>>

\* The flag the failed branch writes.
ReleaseEquipment(e) == SetAvailability(e, TRUE)

\* Failed branch: storage.updateEquipment(equipmentId, {availability: true}).
WebhookRelease(p) ==
  /\ pc[p] = "webhook_release"
  /\ LET e == req[p].equipmentId
     IN IF EquipmentExists(e)
        THEN equipment' = ReleaseEquipment(e) /\ Finish(p, 200)
        ELSE UNCHANGED equipment /\ Finish(p, 400)
  /\ UNCHANGED <<bookings, orders, receipts, reviews, equipmentIdSeq>>

(* ------------------- PATCH /api/bookings/:id/status -------------------- *)
StatusRequests ==
  [kind : {"status"}, caller : {Anonymous, Renter, Admin}, bookingId : BookingIds,
   status : {"approved", "rejected", "paid"}]

StatusReceive(p) == Receive(p, StatusRequests, "status_start")

\* A status update that also forgets the payment.
updateBookingStatusClearing(b, status) ==
  [bookings EXCEPT ![b].status = status, ![b].razorpayPaymentId = "none"]

\* storage.updateBookingStatus(id, status).
updateBookingStatus(b, status) == [bookings EXCEPT ![b].status = status]

\* The admin check, the status check and storage.updateBookingStatus.
AdminStatus(p) ==
  /\ pc[p] = "status_start"
  /\ LET r == req[p]
     IN IF r.caller.id = 0 \/ ~r.caller.isAdmin
        THEN UNCHANGED bookings /\ Finish(p, 401)
        ELSE IF r.status \notin {"approved", "rejected"}
        THEN UNCHANGED bookings /\ Finish(p, 400)
        ELSE IF ~BookingExists(r.bookingId)
        THEN UNCHANGED bookings /\ Finish(p, 500)
        ELSE bookings' = updateBookingStatus(r.bookingId, r.status) /\ Finish(p, 200)
  /\ UNCHANGED <<equipment, orders, receipts, reviews, equipmentIdSeq>>

(* ---------------- PATCH /api/equipment/:id/availability ---------------- *)
AvailabilityRequests ==
  [kind : {"availability"}, caller : {Anonymous, Owner, Renter},
   equipmentId : EquipIdInputs, available : BOOLEAN]

AvailabilityReceive(p) == Receive(p, AvailabilityRequests, "availability_start")

\* Authentication, getEquipment and the ownership check.
AvailabilityStart(p) ==
  /\ pc[p] = "availability_start"
  /\ LET r == req[p]
         e == r.equipmentId
     IN IF r.caller.id = 0 THEN Finish(p, 401)
        ELSE IF ~EquipmentExists(e) THEN Finish(p, 404)
        ELSE IF equipment[e].ownerId # r.caller.id THEN Finish(p, 403)
        ELSE Goto(p, "availability_write", r)
  /\ UNCHANGED <<equipment, bookings, orders, receipts, reviews, equipmentIdSeq>>

\* storage.updateEquipment(equipmentId, {availability: available}).
AvailabilityWrite(p) ==
  /\ pc[p] = "availability_write"
  /\ LET e == req[p].equipmentId
     IN IF EquipmentExists(e)
        THEN equipment' = SetAvailability(e, req[p].available) /\ Finish(p, 200)
        ELSE UNCHANGED equipment /\ Finish(p, 500)
  /\ UNCHANGED <<bookings, orders, receipts, reviews, equipmentIdSeq>>

(* ---------------- GET /api/bookings/:id/payment-config ---------------- *)
ConfigRequests ==
  [kind : {"config"}, caller : {Anonymous, Owner, Renter}, bookingId : BookingIds,
   equipmentId : {0}, totalPrice : {0}]

\* The gateway mints at most MaxBookings orders on behalf of this route.
ConfigReceive(p) ==
  /\ orders < MaxBookings
  /\ Receive(p, ConfigRequests, "config_start")

\* Authentication, getBooking and the check that the caller is the renter.
ConfigStart(p) ==
  /\ pc[p] = "config_start"
  /\ LET r == req[p]
         b == r.bookingId
     IN IF r.caller.id = 0 THEN Finish(p, 401)
        ELSE IF ~BookingExists(b) THEN Finish(p, 404)
        ELSE IF bookings[b].userId # r.caller.id THEN Finish(p, 403)
        ELSE Goto(p, "config_equipment",
                  [r EXCEPT !.equipmentId = bookings[b].equipmentId,
                            !.totalPrice = bookings[b].totalPrice])
  /\ UNCHANGED <<equipment, bookings, orders, receipts, reviews, equipmentIdSeq>>

\* storage.getEquipment(booking.equipmentId), then the call of
\* createPaymentSession(bookingId, booking.totalPrice, equipment.name) with
\* the price of the row read by getBooking: it throws before it awaits
\* anything when the amount is not positive.
ConfigEquipment(p) ==
  /\ pc[p] = "config_equipment"
  /\ IF ~EquipmentExists(req[p].equipmentId) THEN Finish(p, 404)
     ELSE IF req[p].totalPrice <= 0 THEN Finish(p, 500)
     ELSE Goto(p, "config_order", req[p])
  /\ UNCHANGED <<equipment, bookings, orders, receipts, reviews, equipmentIdSeq>>

\* createPaymentSession: the gateway mints a new order or fails; the
\* booking row is neither read again nor touched.
ConfigOrder(p) ==
  /\ pc[p] = "config_order"
  /\ \E gatewayOk \in BOOLEAN :
       IF gatewayOk
       THEN orders' = orders + 1 /\ Finish(p, 200)
       ELSE UNCHANGED orders /\ Finish(p, 500)
  /\ UNCHANGED <<equipment, bookings, receipts, reviews, equipmentIdSeq>>

\* The getBooking of the route (for a caller who is signed in) or its
\* getEquipment throws: the catch answers 500.
PaymentConfigFails(p) ==
  /\ \/ pc[p] = "config_start" /\ req[p].caller.id # 0
     \/ pc[p] = "config_equipment"
  /\ Finish(p, 500)
  /\ UNCHANGED <<equipment, bookings, orders, receipts, reviews, equipmentIdSeq>>

PaymentConfig(p) ==
  \/ ConfigReceive(p)
  \/ ConfigStart(p)
  \/ ConfigEquipment(p)
  \/ ConfigOrder(p)

(* ------------------------ failing storage calls ------------------------ *)
\* A storage call may fail (the database refuses or is unreachable): a
\* write does not happen and control passes to the enclosing catch block; a
\* read throws as well, except getBookingsByDateRange and listBookings,
\* which catch the error themselves and return no rows.  Each action below
\* is the failing outcome of one awaited call.

\* getEquipment throws, in the handler (once the request is signed in and
\* passes insertBookingSchema) or in checkEquipmentAvailability, which
\* throws it on: the outer catch answers 500.
CreateEquipmentFails(p) ==
  /\ \/ /\ pc[p] = "create_start"
        /\ req[p].userId # 0 /\ req[p].startDate # -1 /\ req[p].endDate # -1
     \/ pc[p] = "create_check_equipment"
  /\ Finish(p, 500)
  /\ UNCHANGED <<equipment, bookings, orders, receipts, reviews, equipmentIdSeq>>

\* The SELECT of getBookingsByDateRange fails: it returns no rows, so
\* checkEquipmentAvailability sees no conflict and answers true.
CreateCheckBookingsFails(p) ==
  /\ pc[p] = "create_check_bookings"
  /\ CallCreateBooking(p)
  /\ UNCHANGED <<equipment, bookings, orders, receipts, reviews, equipmentIdSeq>>

\* storage.createBooking throws: the outer catch answers 500.
CreateInsertFails(p) ==
  /\ pc[p] = "create_insert"
  /\ Finish(p, 500)
  /\ UNCHANGED <<equipment, bookings, orders, receipts, reviews, equipmentIdSeq>>

\* The lock or updateBooking(awaiting_payment) throws inside the inner
\* try: catch (paymentError) runs.
CreateTryFails(p) ==
  /\ pc[p] \in {"create_lock", "create_await"}
  /\ Goto(p, "create_revert", req[p])
  /\ UNCHANGED <<equipment, bookings, orders, receipts, reviews, equipmentIdSeq>>

\* The updateEquipment(true) or the updateBooking(payment_failed) of
\* catch (paymentError) throws: the outer catch answers 500 and the booking
\* keeps the status it has.  The handler is in that catch block because a
\* call of the same request has failed before.
CompensationFails(p) ==
  /\ pc[p] \in {"create_revert", "create_fail"}
  /\ Finish(p, 500)
  /\ UNCHANGED <<equipment, bookings, orders, receipts, reviews, equipmentIdSeq>>

\* A storage call of verify-payment throws: its getBooking (once the body
\* is complete), updateEquipment(true), updateBooking(paid) or
\* updateEquipment(false).  The catch answers 500 and undoes nothing.
VerifyFails(p) ==
  /\ \/ pc[p] = "verify_start" /\ req[p].complete
     \/ pc[p] \in {"verify_restore", "verify_paid", "verify_lock"}
  /\ Finish(p, 500)
  /\ UNCHANGED <<equipment, bookings, orders, receipts, reviews, equipmentIdSeq>>

\* A storage call of the webhook throws: the updateBooking of the branch
\* taken, updateEquipment(false) or updateEquipment(true).  The catch
\* answers 400 and undoes nothing.
WebhookFails(p) ==
  /\ \/ /\ pc[p] = "webhook_start"
        /\ WebhookSignatureOk(req[p])
        /\ req[p].body # "object"
        /\ req[p].event.hasPayment
        /\ \/ /\ handleWebhookEvent(req[p].event).status = "success"
              /\ handleWebhookEvent(req[p].event).paymentId # "none"
           \/ handleWebhookEvent(req[p].event).status = "failed"
     \/ pc[p] \in {"webhook_lock", "webhook_release"}
  /\ Finish(p, 400)
  /\ UNCHANGED <<equipment, bookings, orders, receipts, reviews, equipmentIdSeq>>

\* The status of booking b and the flag of its equipment, as one pair.
PairOf(b) ==
  IF BookingExists(b)
  THEN <<bookings[b].status, EquipmentAvailable(bookings[b].equipmentId)>>
  ELSE <<"none", FALSE>>

\* A verify-payment request, together with the pair it finds on arrival
\* (pre): the route does not read pre.
ObservedVerifyReceive(p) ==
  /\ pc[p] = "idle"
  /\ \E r \in VerifyRequests :
       req' = [req EXCEPT ![p] =
                 [kind |-> "verify", complete |-> r.complete, bookingId |-> r.bookingId,
                  orderId |-> r.orderId, paymentId |-> r.paymentId,
                  signature |-> r.signature, equipmentId |-> r.equipmentId,
                  pre |-> PairOf(r.bookingId)]]
  /\ pc' = [pc EXCEPT ![p] = "verify_start"]
  /\ resp' = [resp EXCEPT ![p] = 0]
  /\ UNCHANGED <<equipment, bookings, orders, receipts, reviews, equipmentIdSeq>>

\* A webhook delivery, together with the pair it finds on arrival (pre):
\* the route does not read pre.
ObservedWebhookReceive(p) ==
  /\ pc[p] = "idle"
  /\ SumOver(receipts, BookingIds) + PendingReceipts < MaxReceipts
  /\ \E r \in WebhookRequests :
       req' = [req EXCEPT ![p] =
                 [kind |-> "webhook", secret |-> r.secret, signature |-> r.signature,
                  body |-> r.body, event |-> r.event, bookingId |-> r.bookingId,
                  paymentId |-> r.paymentId, equipmentId |-> r.equipmentId,
                  pre |-> PairOf(handleWebhookEvent(r.event).bookingId)]]
  /\ pc' = [pc EXCEPT ![p] = "webhook_start"]
  /\ resp' = [resp EXCEPT ![p] = 0]
  /\ UNCHANGED <<equipment, bookings, orders, receipts, reviews, equipmentIdSeq>>

\* The calls whose failure can be the first of its request.
StorageFails(p) ==
  \/ CreateEquipmentFails(p)
  \/ CreateCheckBookingsFails(p)
  \/ CreateInsertFails(p)
  \/ CreateTryFails(p)
  \/ VerifyFails(p)
  \/ WebhookFails(p)

(* --------------------- PATCH /api/equipment/:id ------------------------ *)
\* Request bodies.  availability is absent (hasAvailability FALSE) or a
\* flag; dailyRate is absent (hasDailyRate FALSE), a number, or -1 for a
\* value that is no number (the empty string, which the handler leaves
\* unparsed, or a string parseInt turns into NaN); ownerId is absent (0) or
\* the id of another user; id is absent (0) or an equipment id; other is
\* the rest of the body: nothing, another column (a name, an uploaded
\* image, ...), or a specs or features text that JSON.parse refuses.
EditRequests ==
  {r \in [kind : {"edit"}, caller : {Anonymous, Owner, Renter, Admin},
          equipmentId : EquipIdInputs, hasAvailability : BOOLEAN,
          availability : BOOLEAN, hasDailyRate : BOOLEAN, dailyRate : {-1, 0, 500},
          ownerId : {0, Renter.id}, id : {0} \cup EquipIdInputs,
          other : {"none", "column", "bad_json"}] :
     /\ r.hasAvailability \/ ~r.availability
     /\ r.hasDailyRate <=> r.dailyRate # 0}

EditReceive(p) == Receive(p, EditRequests, "edit_start")

\* Authentication, getEquipment, the owner-or-admin check, the parsing of
\* specs and features and the call of storage.updateEquipment: when
\* updateData = {...req.body} has no column at all, .set({}) throws before
\* any statement is sent.
EditStart(p) ==
  /\ pc[p] = "edit_start"
  /\ LET r == req[p]
         e == r.equipmentId
     IN IF r.caller.id = 0 THEN Finish(p, 401)
        ELSE IF ~EquipmentExists(e) THEN Finish(p, 404)
        ELSE IF equipment[e].ownerId # r.caller.id /\ ~r.caller.isAdmin
        THEN Finish(p, 403)
        ELSE IF r.other = "bad_json" THEN Finish(p, 400)
        ELSE IF ~r.hasAvailability /\ ~r.hasDailyRate /\ r.ownerId = 0 /\ r.id = 0
                /\ r.other = "none"
        THEN Finish(p, 500)
        ELSE Goto(p, "edit_write", r)
  /\ UNCHANGED <<equipment, bookings, orders, receipts, reviews, equipmentIdSeq>>

\* The row e after .set(updateData), updateData = {...req.body}: every
\* column of the body is written, the primary key id and ownerId included.
\* Of the columns, the table of the model keeps those the handlers read.
EditedEquipment(e, r) ==
  [id |-> IF r.id # 0 THEN r.id ELSE e,
   row |-> [equipment[e] EXCEPT
              !.availability = IF r.hasAvailability THEN r.availability ELSE @,
              !.dailyRate = IF r.hasDailyRate THEN r.dailyRate ELSE @,
              !.ownerId = IF r.ownerId # 0 THEN r.ownerId ELSE @]]

\* storage.updateEquipment(equipmentId, updateData): the statement fails
\* as a whole when the integer column dailyRate is given no number, or
\* when the body's id is the primary key of another row.  A body id that
\* is free moves the row there: no row is left under the old id, the
\* bookings that name the old id keep naming it, and the serial that
\* numbers new rows is not advanced.
EditWrite(p) ==
  /\ pc[p] = "edit_write"
  /\ LET e == req[p].equipmentId
         new == EditedEquipment(e, req[p])
     IN IF /\ EquipmentExists(e)
           /\ ~(req[p].hasDailyRate /\ req[p].dailyRate = -1)
           /\ (new.id = e \/ ~EquipmentExists(new.id))
        THEN /\ equipment' = [i \in DOMAIN equipment \cup {new.id} |->
                                IF i = new.id THEN new.row
                                ELSE IF i = e THEN DeletedEquipment
                                ELSE equipment[i]]
             /\ Finish(p, 200)
        ELSE UNCHANGED equipment /\ Finish(p, 500)
  /\ UNCHANGED <<bookings, orders, receipts, reviews, equipmentIdSeq>>

(* ------------------------ POST /api/equipment -------------------------- *)
\* Request bodies: the image may be missing, and dailyRate is a number or
\* -1 for a value parseInt turns into NaN.
EquipmentRequests ==
  [kind : {"equipment"}, caller : {Anonymous, Owner, Renter}, hasImage : BOOLEAN,
   dailyRate : {-1, 100}]

\* At most MaxEquipment ids are issued, counting those that requests in
\* flight may still take.
EquipmentReceive(p) ==
  /\ equipmentIdSeq
       + Cardinality({q \in Procs : pc[q] \in {"equipment_start", "equipment_insert"}})
         < MaxEquipment
  /\ Receive(p, EquipmentRequests, "equipment_start")

\* Authentication, the image check and insertEquipmentSchema.
EquipmentStart(p) ==
  /\ pc[p] = "equipment_start"
  /\ LET r == req[p]
     IN IF r.caller.id = 0 THEN Finish(p, 401)
        ELSE IF ~r.hasImage THEN Finish(p, 400)
        ELSE IF r.dailyRate = -1 THEN Finish(p, 400)
        ELSE Goto(p, "equipment_insert", r)
  /\ UNCHANGED <<equipment, bookings, orders, receipts, reviews, equipmentIdSeq>>

\* storage.createEquipment: the new row takes the next id of the serial,
\* belongs to the caller and is available.  When an edit has moved a row
\* to that id the insert is refused (duplicate key), createEquipment
\* throws and the catch answers 500; the serial has advanced all the same.
EquipmentInsert(p) ==
  /\ pc[p] = "equipment_insert"
  /\ equipmentIdSeq' = equipmentIdSeq + 1
  /\ IF EquipmentExists(equipmentIdSeq + 1)
     THEN UNCHANGED equipment /\ Finish(p, 500)
     ELSE /\ equipment' = [e \in DOMAIN equipment \cup {equipmentIdSeq + 1} |->
                             IF e = equipmentIdSeq + 1
                             THEN [ownerId |-> req[p].caller.id,
                                   dailyRate |-> req[p].dailyRate,
                                   availability |-> TRUE]
                             ELSE equipment[e]]
          /\ Finish(p, 201)
  /\ UNCHANGED <<bookings, orders, receipts, reviews>>

EquipmentCreate(p) ==
  \/ EquipmentReceive(p)
  \/ EquipmentStart(p)
  \/ EquipmentInsert(p)

(* ------------------- POST /api/bookings/:id/receipt -------------------- *)
ReceiptRequests ==
  [kind : {"receipt"}, caller : {Anonymous, Owner, Renter}, bookingId : BookingIds,
   paymentId : {"none"}]

ReceiptReceive(p) ==
  /\ SumOver(receipts, BookingIds) + PendingReceipts < MaxReceipts
  /\ Receive(p, ReceiptRequests, "receipt_start")

\* Authentication, getBooking and the check that a payment id is stored:
\* the caller need not be the renter.
ReceiptStart(p) ==
  /\ pc[p] = "receipt_start"
  /\ LET r == req[p]
         b == r.bookingId
     IN IF r.caller.id = 0 THEN Finish(p, 401)
        ELSE IF ~BookingExists(b) THEN Finish(p, 404)
        ELSE IF bookings[b].razorpayPaymentId = "none" THEN Finish(p, 400)
        ELSE Goto(p, "receipt_generate",
                  [r EXCEPT !.paymentId = bookings[b].razorpayPaymentId])
  /\ UNCHANGED <<equipment, bookings, orders, receipts, reviews, equipmentIdSeq>>

\* generateReceipt(bookingId, booking.razorpayPaymentId); the gateway's
\* payments.fetch answers or fails.
ReceiptGenerate(p) ==
  /\ pc[p] = "receipt_generate"
  /\ \E gatewayOk \in BOOLEAN :
       IF gatewayOk
       THEN /\ receipts' = [receipts EXCEPT ![req[p].bookingId] = @ + 1]
            /\ Finish(p, 200)
       ELSE /\ UNCHANGED receipts
            /\ Finish(p, 500)
  /\ UNCHANGED <<equipment, bookings, orders, reviews, equipmentIdSeq>>

Receipt(p) ==
  \/ ReceiptReceive(p)
  \/ ReceiptStart(p)
  \/ ReceiptGenerate(p)

(* --------------------- DELETE /api/equipment/:id ----------------------- *)
DeleteRequests ==
  [kind : {"delete"}, caller : {Anonymous, Owner, Renter, Admin},
   equipmentId : EquipIdInputs]

DeleteReceive(p) == Receive(p, DeleteRequests, "delete_start")

\* Authentication, getEquipment and the owner-or-admin check.
DeleteStart(p) ==
  /\ pc[p] = "delete_start"
  /\ LET r == req[p]
         e == r.equipmentId
     IN IF r.caller.id = 0 THEN Finish(p, 401)
        ELSE IF ~EquipmentExists(e) THEN Finish(p, 404)
        ELSE IF equipment[e].ownerId # r.caller.id /\ ~r.caller.isAdmin
        THEN Finish(p, 403)
        ELSE Goto(p, "delete_equipment", r)
  /\ UNCHANGED <<equipment, bookings, orders, receipts, reviews, equipmentIdSeq>>

\* storage.deleteEquipment(equipmentId).
DeleteEquipment(p) ==
  /\ pc[p] = "delete_equipment"
  /\ equipment' = [e \in DOMAIN equipment |->
                     IF e = req[p].equipmentId THEN DeletedEquipment ELSE equipment[e]]
  /\ Goto(p, "delete_bookings", req[p])
  /\ UNCHANGED <<bookings, orders, receipts, reviews, equipmentIdSeq>>

\* storage.deleteEquipmentBookings(equipmentId).
DeleteBookings(p) ==
  /\ pc[p] = "delete_bookings"
  /\ bookings' = [i \in DOMAIN bookings |->
                    IF bookings[i].equipmentId = req[p].equipmentId
                    THEN DeletedBooking ELSE bookings[i]]
  /\ Finish(p, 200)
  /\ UNCHANGED <<equipment, orders, receipts, reviews, equipmentIdSeq>>

(* ----------- POST /api/bookings/verify-payment, by caller -------------- *)
\* The verify-payment requests together with the session they arrive in.
\* The route never reads the session.
VerifyFromRequests ==
  {[kind |-> "verify", caller |-> c, complete |-> r.complete,
    bookingId |-> r.bookingId, orderId |-> r.orderId, paymentId |-> r.paymentId,
    signature |-> r.signature, equipmentId |-> 0] :
     <<r, c>> \in VerifyRequests \X {Anonymous, Owner, Renter}}

VerifyFromReceive(p) == Receive(p, VerifyFromRequests, "verify_start")

(* ------------------------- POST /api/reviews --------------------------- *)
\* A rating is a JSON number: units, or units and a half.
Whole(n) == [units |-> n, half |-> FALSE]

Half(n) == [units |-> n, half |-> TRUE]

RatingInputs == {Whole(0), Whole(1), Whole(5), Whole(6), Half(0), Half(2), Half(5)}

\* A comment is given by its length.
CommentInputs == {9, 10, 500, 501}

ReviewRequests ==
  [kind : {"review"}, userId : {c.id : c \in {Anonymous, Owner, Renter}},
   equipmentId : EquipIdInputs, rating : RatingInputs, comment : CommentInputs,
   bookingId : {0}]

ReviewReceive(p) == Receive(p, ReviewRequests, "review_start")

\* rating: z.number().min(1).max(5); comment: z.string().min(10).max(500).
reviewSchema(r) ==
  /\ r.rating.units >= 1
  /\ r.rating.units < 5 \/ (r.rating.units = 5 /\ ~r.rating.half)
  /\ r.comment >= 10
  /\ r.comment <= 500

\* The orders in which the rows S can be listed.
Listings(S) ==
  {l \in [1..Cardinality(S) -> S] : \A i, j \in 1..Cardinality(S) : i # j => l[i] # l[j]}

\* ORDER BY createdAt DESC.
Descending(l) ==
  \A i \in 1..(Len(l) - 1) : bookings[l[i]].createdAt >= bookings[l[i + 1]].createdAt

\* listBookings(userId): the listings the SELECT may return, the most
\* recently created row first; rows of one createdAt come in any order.
listBookings(userId) ==
  {l \in Listings({i \in DOMAIN bookings : bookings[i].userId = userId}) : Descending(l)}

\* bookings.find(b => b.equipmentId === equipmentId && b.status === 'paid'
\* && !b.isRated): the first such booking of the list, 0 when there is none.
RECURSIVE FindValidBooking(_, _)
FindValidBooking(list, equipmentId) ==
  IF list = <<>> THEN 0
  ELSE LET b == bookings[Head(list)]
       IN IF b.equipmentId = equipmentId /\ b.status = "paid" /\ ~b.isRated
          THEN Head(list)
          ELSE FindValidBooking(Tail(list), equipmentId)

\* Authentication, reviewSchema, listBookings and the search for a paid,
\* unrated booking.
ReviewStart(p) ==
  /\ pc[p] = "review_start"
  /\ \E list \in listBookings(req[p].userId) :
       LET r == req[p]
           validBooking == FindValidBooking(list, r.equipmentId)
       IN IF r.userId = 0 THEN Finish(p, 401)
          ELSE IF ~reviewSchema(r) THEN Finish(p, 400)
          ELSE IF validBooking = 0 THEN Finish(p, 400)
          ELSE Goto(p, "review_insert", [r EXCEPT !.bookingId = validBooking])
  /\ UNCHANGED <<equipment, bookings, orders, receipts, reviews, equipmentIdSeq>>

\* The SELECT of listBookings fails: it returns no rows, so no valid
\* booking is found.
ReviewListFails(p) ==
  /\ pc[p] = "review_start"
  /\ req[p].userId # 0
  /\ reviewSchema(req[p])
  /\ Finish(p, 400)
  /\ UNCHANGED <<equipment, bookings, orders, receipts, reviews, equipmentIdSeq>>

NewReview(r) ==
  [userId |-> r.userId, equipmentId |-> r.equipmentId,
   rating |-> r.rating.units, comment |-> r.comment]

\* storage.createReview: the rating column is an integer, so the insert of
\* a rating with a fraction fails and the handler answers 500.
ReviewInsert(p) ==
  /\ pc[p] = "review_insert"
  /\ IF req[p].rating.half
     THEN UNCHANGED reviews /\ Finish(p, 500)
     ELSE reviews' = Append(reviews, NewReview(req[p]))
          /\ Goto(p, "review_mark", req[p])
  /\ UNCHANGED <<equipment, bookings, orders, receipts, equipmentIdSeq>>

\* The bookings when the review leaves them as they are.
MarkRatedSkipped(bookingId) == bookings

\* storage.updateBooking(validBooking.id, {isRated: true}).
MarkRated(bookingId) ==
  [bookings EXCEPT ![bookingId].isRated = TRUE]

ReviewMark(p) ==
  /\ pc[p] = "review_mark"
  /\ IF BookingExists(req[p].bookingId)
     THEN bookings' = MarkRated(req[p].bookingId) /\ Finish(p, 200)
     ELSE UNCHANGED bookings /\ Finish(p, 500)
  /\ UNCHANGED <<equipment, orders, receipts, reviews, equipmentIdSeq>>

\* storage.createReview throws, or updateBooking(isRated) throws after the
\* review row is stored: the catch answers 500.
ReviewWriteFails(p) ==
  /\ pc[p] \in {"review_insert", "review_mark"}
  /\ Finish(p, 500)
  /\ UNCHANGED <<equipment, bookings, orders, receipts, reviews, equipmentIdSeq>>

(* ------------------- failing calls of the other routes ------------------ *)
\* storage.createEquipment throws: the catch answers 500.  The statement
\* may have taken an id from the serial before it failed.
EquipmentInsertFails(p) ==
  /\ pc[p] = "equipment_insert"
  /\ \E taken \in {0, 1} : equipmentIdSeq' = equipmentIdSeq + taken
  /\ Finish(p, 500)
  /\ UNCHANGED <<equipment, bookings, orders, receipts, reviews>>

\* PATCH /api/equipment/:id: getEquipment (for a caller who is signed in)
\* or updateEquipment throws: the catch answers 500.
EditFails(p) ==
  /\ \/ pc[p] = "edit_start" /\ req[p].caller.id # 0
     \/ pc[p] = "edit_write"
  /\ Finish(p, 500)
  /\ UNCHANGED <<equipment, bookings, orders, receipts, reviews, equipmentIdSeq>>

\* PATCH /api/equipment/:id/availability: getEquipment (for a caller who is
\* signed in) or updateEquipment throws: the catch answers 500.
AvailabilityFails(p) ==
  /\ \/ pc[p] = "availability_start" /\ req[p].caller.id # 0
     \/ pc[p] = "availability_write"
  /\ Finish(p, 500)
  /\ UNCHANGED <<equipment, bookings, orders, receipts, reviews, equipmentIdSeq>>

\* DELETE /api/equipment/:id: getEquipment (for a caller who is signed in),
\* deleteEquipment or deleteEquipmentBookings throws: the catch answers 500
\* and what was deleted before stays deleted.
DeleteFails(p) ==
  /\ \/ pc[p] = "delete_start" /\ req[p].caller.id # 0
     \/ pc[p] \in {"delete_equipment", "delete_bookings"}
  /\ Finish(p, 500)
  /\ UNCHANGED <<equipment, bookings, orders, receipts, reviews, equipmentIdSeq>>

\* PATCH /api/bookings/:id/status: storage.updateBookingStatus throws for an
\* admin's valid target: the catch answers 500.
StatusFails(p) ==
  /\ pc[p] = "status_start"
  /\ req[p].caller.isAdmin
  /\ req[p].status \in {"approved", "rejected"}
  /\ Finish(p, 500)
  /\ UNCHANGED <<equipment, bookings, orders, receipts, reviews, equipmentIdSeq>>

\* POST /api/bookings/:id/receipt: getBooking throws for a caller who is
\* signed in: the catch answers 500.
ReceiptFails(p) ==
  /\ pc[p] = "receipt_start"
  /\ req[p].caller.id # 0
  /\ Finish(p, 500)
  /\ UNCHANGED <<equipment, bookings, orders, receipts, reviews, equipmentIdSeq>>

(* --------------------------- specifications ---------------------------- *)
Init ==
  /\ equipment \in [EquipIds -> [ownerId : {Owner.id}, dailyRate : {100},
                                 availability : {TRUE}]]
  /\ equipmentIdSeq = Cardinality(EquipIds)
  /\ bookings = <<>>
  /\ orders = 0
  /\ receipts = [b \in BookingIds |-> 0]
  /\ reviews = <<>>
  /\ pc = [p \in Procs |-> "idle"]
  /\ req = [p \in Procs |-> Idle]
  /\ resp = [p \in Procs |-> 0]

Create(p) ==
  \/ CreateReceive(p)
  \/ CreateStart(p)
  \/ CreateCheckEquipment(p)
  \/ CreateCheckBookings(p)
  \/ CreateInsert(p)
  \/ CreateLock(p)
  \/ CreateOrder(p)
  \/ CreateAwait(p)
  \/ CreateRevert(p)
  \/ CreateFail(p)

\* A booking request whose body names the equipment and the dates and
\* nothing else.
PlainCreateReceive(p) ==
  /\ Len(bookings) + PendingInserts < MaxBookings
  /\ Receive(p, {r \in CreateRequests :
                   r.razorpayOrderId = 0 /\ r.razorpayPaymentId = "none"},
             "create_start")

PlainCreate(p) ==
  \/ PlainCreateReceive(p)
  \/ CreateStart(p)
  \/ CreateCheckEquipment(p)
  \/ CreateCheckBookings(p)
  \/ CreateInsert(p)
  \/ CreateLock(p)
  \/ CreateOrder(p)
  \/ CreateAwait(p)
  \/ CreateRevert(p)
  \/ CreateFail(p)

\* Plain booking requests received while no booking is stored.
FirstCreate(p) ==
  \/ bookings = <<>> /\ PlainCreateReceive(p)
  \/ CreateStart(p)
  \/ CreateCheckEquipment(p)
  \/ CreateCheckBookings(p)
  \/ CreateInsert(p)
  \/ CreateLock(p)
  \/ CreateOrder(p)
  \/ CreateAwait(p)
  \/ CreateRevert(p)
  \/ CreateFail(p)

VerifyPayment(p) ==
  \/ VerifyReceive(p)
  \/ VerifyStart(p)
  \/ VerifyRestore(p)
  \/ VerifyPaid(p)
  \/ VerifyLock(p)

Webhook(p) ==
  \/ WebhookReceive(p)
  \/ WebhookStart(p)
  \/ WebhookLock(p)
  \/ WebhookReceipt(p)
  \/ WebhookRelease(p)

Status(p) ==
  \/ StatusReceive(p)
  \/ AdminStatus(p)

Availability(p) ==
  \/ AvailabilityReceive(p)
  \/ AvailabilityStart(p)
  \/ AvailabilityWrite(p)

EquipmentEdit(p) ==
  \/ EditReceive(p)
  \/ EditStart(p)
  \/ EditWrite(p)

EquipmentDelete(p) ==
  \/ DeleteReceive(p)
  \/ DeleteStart(p)
  \/ DeleteEquipment(p)
  \/ DeleteBookings(p)

Review(p) ==
  \/ ReviewReceive(p)
  \/ ReviewStart(p)
  \/ ReviewInsert(p)
  \/ ReviewMark(p)

Step(p) ==
  \/ Create(p)
  \/ VerifyPayment(p)
  \/ Webhook(p)
  \/ Status(p)
  \/ Availability(p)
  \/ Return(p)

\* Requests are served one at a time; booking requests are plain.
SeqNext ==
  \/ PlainCreate(1)
  \/ VerifyPayment(1)
  \/ Webhook(1)
  \/ Status(1)
  \/ Availability(1)
  \/ Return(1)

SeqSpec == Init /\ [][SeqNext]_vars

Next ==
  \E p \in Procs :
     \/ Step(p)
     \/ Review(p)
     \/ EquipmentCreate(p)
     \/ EquipmentEdit(p)
     \/ EquipmentDelete(p)
     \/ PaymentConfig(p)
     \/ Receipt(p)
     \/ StorageFails(p)
     \/ CompensationFails(p)
     \/ PaymentConfigFails(p)
     \/ ReviewListFails(p)
     \/ ReviewWriteFails(p)
     \/ EquipmentInsertFails(p)
     \/ EditFails(p)
     \/ AvailabilityFails(p)
     \/ DeleteFails(p)
     \/ StatusFails(p)
     \/ ReceiptFails(p)

Spec == Init /\ [][Next]_vars

\* Two booking requests race; nothing else runs.
CreateRaceNext == \E p \in Procs : Create(p)

CreateRaceSpec == Init /\ [][CreateRaceNext]_vars

(* --------------------------- confirm race ------------------------------ *)
\* The client's verify-payment call for a booking that awaits payment: it
\* carries the order id stored on the booking and the gateway's signature.
ConfirmVerifyReceive(p) ==
  /\ pc[p] = "idle"
  /\ \E r \in VerifyRequests :
       /\ r.complete
       /\ BookingExists(r.bookingId)
       /\ bookings[r.bookingId].status = "awaiting_payment"
       /\ r.orderId = bookings[r.bookingId].razorpayOrderId
       /\ verifyPaymentSignature(r.orderId, r.paymentId, r.signature)
       /\ req' = [req EXCEPT ![p] = r]
  /\ pc' = [pc EXCEPT ![p] = "verify_start"]
  /\ resp' = [resp EXCEPT ![p] = 0]
  /\ UNCHANGED <<equipment, bookings, orders, receipts, reviews, equipmentIdSeq>>

\* A payment.captured delivery for a booking that awaits payment, in
\* either event layout, that passes the signature block.
ConfirmWebhookReceive(p) ==
  /\ pc[p] = "idle"
  /\ SumOver(receipts, BookingIds) + PendingReceipts < MaxReceipts
  /\ \E r \in WebhookRequests :
       /\ r.event.event = "payment.captured"
       /\ r.event.id \in {"none"} \cup PaymentIds
       /\ LET b == IF r.event.status = "captured" THEN r.event.order_id
                   ELSE r.event.notesBookingId
          IN BookingExists(b) /\ bookings[b].status = "awaiting_payment"
       /\ WebhookSignatureOk(r)
       /\ req' = [req EXCEPT ![p] = r]
  /\ pc' = [pc EXCEPT ![p] = "webhook_start"]
  /\ resp' = [resp EXCEPT ![p] = 0]
  /\ UNCHANGED <<equipment, bookings, orders, receipts, reviews, equipmentIdSeq>>

\* Bookings are created one at a time; the two confirmation paths run in
\* any slot and in any interleaving.
ConfirmRaceNext ==
  \/ Create(1)
  \/ \E p \in Procs :
        \/ ConfirmVerifyReceive(p)
        \/ VerifyStart(p)
        \/ VerifyPaid(p)
        \/ VerifyLock(p)
        \/ ConfirmWebhookReceive(p)
        \/ WebhookStart(p)
        \/ WebhookLock(p)
        \/ WebhookReceipt(p)
        \/ Return(p)

ConfirmRaceSpec == Init /\ [][ConfirmRaceNext]_vars

(* ------------------------ confirm / fail race -------------------------- *)
\* A payment.failed delivery for a booking that awaits payment that passes
\* the signature block.
FailWebhookReceive(p) ==
  /\ pc[p] = "idle"
  /\ \E r \in WebhookRequests :
       /\ r.event.event = "payment.failed"
       /\ LET b == IF r.event.status = "failed" THEN r.event.order_id
                   ELSE r.event.notesBookingId
          IN BookingExists(b) /\ bookings[b].status = "awaiting_payment"
       /\ WebhookSignatureOk(r)
       /\ req' = [req EXCEPT ![p] = r]
  /\ pc' = [pc EXCEPT ![p] = "webhook_start"]
  /\ resp' = [resp EXCEPT ![p] = 0]
  /\ UNCHANGED <<equipment, bookings, orders, receipts, reviews, equipmentIdSeq>>

\* Bookings are created one at a time; confirmations and failures of a
\* booking that awaits payment run in any slot and in any interleaving.
ConfirmFailRaceNext ==
  \/ Create(1)
  \/ \E p \in Procs :
        \/ ConfirmVerifyReceive(p)
        \/ VerifyStart(p)
        \/ VerifyPaid(p)
        \/ VerifyLock(p)
        \/ ConfirmWebhookReceive(p)
        \/ FailWebhookReceive(p)
        \/ WebhookStart(p)
        \/ WebhookLock(p)
        \/ WebhookReceipt(p)
        \/ WebhookRelease(p)
        \/ Return(p)

ConfirmFailRaceSpec == Init /\ [][ConfirmFailRaceNext]_vars

(* ------------------------------- orders -------------------------------- *)
\* Bookings, orders minted for them by Create and by the payment-config
\* route, verify-payment calls and receipts asked for, one request at a
\* time; the reads of the payment-config route may fail.
OrderNext ==
  \/ Create(1)
  \/ PaymentConfig(1)
  \/ PaymentConfigFails(1)
  \/ VerifyPayment(1)
  \/ Receipt(1)
  \/ Return(1)

OrderSpec == Init /\ [][OrderNext]_vars

(* ----------------------------- review race ----------------------------- *)
\* A review by the renter that passes reviewSchema and carries a whole
\* rating.
RenterReviewReceive(p) ==
  /\ pc[p] = "idle"
  /\ \E r \in ReviewRequests :
       /\ r.userId = Renter.id
       /\ reviewSchema(r)
       /\ ~r.rating.half
       /\ req' = [req EXCEPT ![p] = r]
  /\ pc' = [pc EXCEPT ![p] = "review_start"]
  /\ resp' = [resp EXCEPT ![p] = 0]
  /\ UNCHANGED <<equipment, bookings, orders, receipts, reviews, equipmentIdSeq>>

\* Bookings are created and confirmed one at a time; the renter's reviews
\* run in any slot and in any interleaving.
ReviewRaceNext ==
  \/ Create(1)
  \/ ConfirmVerifyReceive(1)
  \/ VerifyStart(1)
  \/ VerifyPaid(1)
  \/ VerifyLock(1)
  \/ \E p \in Procs :
        \/ RenterReviewReceive(p)
        \/ ReviewStart(p)
        \/ ReviewInsert(p)
        \/ ReviewMark(p)
        \/ Return(p)

ReviewRaceSpec == Init /\ [][ReviewRaceNext]_vars

(* ------------------------------ failures ------------------------------- *)
\* Create, Confirm and Fail one request at a time, where one storage call
\* of a request may fail: the calls of catch (paymentError), which come
\* after a failure, succeed.
FailureNext ==
  \/ PlainCreate(1)
  \/ ObservedVerifyReceive(1)
  \/ VerifyStart(1)
  \/ VerifyRestore(1)
  \/ VerifyPaid(1)
  \/ VerifyLock(1)
  \/ ObservedWebhookReceive(1)
  \/ WebhookStart(1)
  \/ WebhookLock(1)
  \/ WebhookReceipt(1)
  \/ WebhookRelease(1)
  \/ StorageFails(1)
  \/ Return(1)

FailureSpec == Init /\ [][FailureNext]_vars

(* ------------------------------ access --------------------------------- *)
\* Every request that writes a booking's status or an equipment's flag,
\* from every kind of caller, one request at a time, up to the first
\* booking stored.
AccessNext ==
  \/ FirstCreate(1)
  \/ VerifyFromReceive(1)
  \/ VerifyStart(1)
  \/ VerifyRestore(1)
  \/ VerifyPaid(1)
  \/ VerifyLock(1)
  \/ Status(1)
  \/ Availability(1)
  \/ EquipmentEdit(1)
  \/ EquipmentDelete(1)
  \/ Return(1)

AccessSpec == Init /\ [][AccessNext]_vars

(* ------------------------------ catalog -------------------------------- *)
\* Equipment is listed, edited and deleted by its owners and booked by
\* renters, one request at a time, up to the first booking stored.
CatalogNext ==
  \/ EquipmentCreate(1)
  \/ EquipmentEdit(1)
  \/ EquipmentDelete(1)
  \/ Availability(1)
  \/ FirstCreate(1)
  \/ Return(1)

CatalogSpec == Init /\ [][CatalogNext]_vars

(* ------------------------------ reviews -------------------------------- *)
\* Bookings are created and paid for, and reviews are submitted, one
\* request at a time.
ReviewNext == Create(1) \/ VerifyPayment(1) \/ Review(1) \/ Return(1)

ReviewSpec == Init /\ [][ReviewNext]_vars

(* ------------------------------ pricing -------------------------------- *)
\* Bookings priced over several days and at any time of day, one request
\* at a time, for equipment at one of two rates.
MaxPriceDay == 3

PriceDateInputs ==
  {k * (MsPerDay \div TicksPerDay) : k \in 0 .. (MaxPriceDay * TicksPerDay)}

PriceRequests ==
  [kind : {"create"}, userId : {Renter.id},
   equipmentId : EquipIds, startDate : PriceDateInputs, endDate : PriceDateInputs,
   razorpayOrderId : {0}, razorpayPaymentId : {"none"},
   totalAmount : {0}, createdAt : {0}, bookingId : {0}, orderId : {0}]

PriceReceive(p) ==
  /\ Len(bookings) + PendingInserts < MaxBookings
  /\ Receive(p, PriceRequests, "create_start")

PriceInit ==
  /\ equipment \in [EquipIds -> [ownerId : {Owner.id}, dailyRate : {100, 500},
                                 availability : {TRUE}]]
  /\ equipmentIdSeq = Cardinality(EquipIds)
  /\ bookings = <<>>
  /\ orders = 0
  /\ receipts = [b \in BookingIds |-> 0]
  /\ reviews = <<>>
  /\ pc = [p \in Procs |-> "idle"]
  /\ req = [p \in Procs |-> Idle]
  /\ resp = [p \in Procs |-> 0]

PriceNext == PriceReceive(1) \/ Create(1) \/ Return(1)

PriceSpec == PriceInit /\ [][PriceNext]_vars

(* ------------------------------- claims -------------------------------- *)
\* No slot is inside a handler.
Quiescent == \A p \in Procs : pc[p] \in {"idle", "done"}

\* Two date ranges, each well formed, share a calendar day of one equipment.
Overlapping(a, b) ==
  /\ a.equipmentId = b.equipmentId
  /\ a.startDate <= a.endDate
  /\ b.startDate <= b.endDate
  /\ DayStart(a.startDate) <= DayEnd(b.endDate)
  /\ DayStart(b.startDate) <= DayEnd(a.endDate)

\* C1: in every reachable state no equipment has two distinct bookings with
\* overlapping inclusive date ranges that are both awaiting_payment or paid.
C1_NoDoubleBooking ==
  \A i \in DOMAIN bookings, j \in DOMAIN bookings :
     (i # j /\ IsHolding(bookings[i].status) /\ IsHolding(bookings[j].status))
       => ~Overlapping(bookings[i], bookings[j])

\* C2: of two concurrent Create requests for the same equipment and
\* overlapping date ranges at most one is answered 201.
C2_AtMostOneCreated ==
  ~(/\ pc[1] = "done" /\ pc[2] = "done"
    /\ req[1].kind = "create" /\ req[2].kind = "create"
    /\ Overlapping(req[1], req[2])
    /\ resp[1] = 201 /\ resp[2] = 201)

\* C3: whenever a booking of an equipment is awaiting_payment or paid, the
\* equipment's availability flag is false (stated between requests).
C3_HoldingImpliesLocked ==
  Quiescent =>
    \A i \in DOMAIN bookings :
       IsHolding(bookings[i].status) => ~equipment[bookings[i].equipmentId].availability

\* C4: a Confirm delivered again for a booking already paid repeats no
\* one-time side effect: no booking has more than one receipt generated.
C4_ReceiptOnce == \A b \in BookingIds : receipts[b] <= 1

\* The verify-payment request in slot p targets a booking in
\* awaiting_payment with a signature that is not HMAC(keySecret, orderId|paymentId).
BadVerify(p) ==
  /\ req[p].kind = "verify"
  /\ req[p].complete
  /\ BookingExists(req[p].bookingId)
  /\ bookings[req[p].bookingId].status = "awaiting_payment"
  /\ bookings[req[p].bookingId].razorpayPaymentId = "none"
  /\ req[p].signature # Hmac(KeySecret, <<req[p].orderId, req[p].paymentId>>)

\* C5: verify-payment with a wrong signature on a booking in awaiting_payment
\* never writes the booking (status and payment id stay), goes through the
\* restore branch only, is answered 400 and leaves the equipment flag true.
C5_BadSignatureRejected ==
  [][\A p \in Procs :
       (BadVerify(p) /\ pc[p] \in {"verify_start", "verify_restore"} /\ pc'[p] # pc[p])
         => /\ bookings' = bookings
            /\ pc[p] = "verify_start" => (pc'[p] = "verify_restore" /\ equipment' = equipment)
            /\ pc[p] = "verify_restore" =>
                 /\ pc'[p] = "done"
                 /\ resp'[p] = 400
                 /\ equipment'[req[p].equipmentId].availability]_vars

C5_Witness ==
  \E p \in Procs :
     /\ BadVerify(p)
     /\ pc[p] = "done"
     /\ resp[p] = 400
     /\ equipment[req[p].equipmentId].availability

\* The request in slot p ran the success branch of a Confirm to its end.
ConfirmSucceeded(p) ==
  /\ pc[p] = "done"
  /\ resp[p] = 200
  /\ \/ req[p].kind = "verify" /\ req[p].equipmentId # 0
     \/ req[p].kind = "webhook" /\ req[p].equipmentId # 0 /\ req[p].paymentId # "none"

\* C6: a Confirm that succeeded, through verify-payment or the webhook, ends
\* with the booking paid, the payment id recorded and the equipment flag
\* false.
C6_ConfirmEffect ==
  \A p \in Procs :
     ConfirmSucceeded(p) =>
       /\ bookings[req[p].bookingId].status = "paid"
       /\ bookings[req[p].bookingId].razorpayPaymentId = req[p].paymentId
       /\ ~equipment[req[p].equipmentId].availability

C6_Witness ==
  \E p \in Procs :
     /\ ConfirmSucceeded(p)
     /\ req[p].kind = "verify"
     /\ bookings[req[p].bookingId].status = "paid"
     /\ bookings[req[p].bookingId].razorpayPaymentId = req[p].paymentId
     /\ ~equipment[req[p].equipmentId].availability

\* The Create in slot p inserted its row and got no payment order.
OrderFailed(p) ==
  /\ pc[p] = "done"
  /\ req[p].kind = "create"
  /\ req[p].bookingId # 0
  /\ req[p].orderId = 0

\* C7: when order creation fails during Create, the request ends with the
\* row still stored in status payment_failed, the equipment flag true and an
\* error answer.
C7_OrderFailureCompensated ==
  \A p \in Procs :
     OrderFailed(p) =>
       /\ BookingExists(req[p].bookingId)
       /\ bookings[req[p].bookingId].status = "payment_failed"
       /\ equipment[req[p].equipmentId].availability
       /\ resp[p] >= 400

C7_Witness ==
  \E p \in Procs :
     /\ OrderFailed(p)
     /\ bookings[req[p].bookingId].status = "payment_failed"
     /\ equipment[req[p].equipmentId].availability
     /\ resp[p] = 400

\* The Create in slot p got its payment order.
OrderCreated(p) ==
  /\ pc[p] = "done"
  /\ req[p].kind = "create"
  /\ req[p].orderId # 0

\* C8: a Create whose payment order was created ends, answered 201, with the
\* booking in awaiting_payment carrying the order id and
\* dailyRate * totalDays, and with the equipment flag false; the flag is
\* already false when the order is about to be requested.
C8_CreateEffect ==
  \A p \in Procs :
     /\ OrderCreated(p) =>
          /\ resp[p] = 201
          /\ bookings[req[p].bookingId].status = "awaiting_payment"
          /\ bookings[req[p].bookingId].razorpayOrderId = req[p].orderId
          /\ bookings[req[p].bookingId].totalPrice =
               equipment[req[p].equipmentId].dailyRate
                 * TotalDays(req[p].startDate, req[p].endDate)
          /\ ~equipment[req[p].equipmentId].availability
     /\ pc[p] = "create_order" => ~equipment[req[p].equipmentId].availability

C8_Witness ==
  \E p \in Procs :
     /\ OrderCreated(p)
     /\ resp[p] = 201
     /\ req[p].startDate < req[p].endDate
     /\ bookings[req[p].bookingId].status = "awaiting_payment"
     /\ ~equipment[req[p].equipmentId].availability

\* The delivery in slot p is the gateway's: a JSON object that carries
\* the signature of its text under the configured secret.
Authenticated(p) ==
  /\ req[p].kind = "webhook"
  /\ req[p].body = "object"
  /\ req[p].secret # "none"
  /\ req[p].signature = Hmac(req[p].secret, req[p].event)

\* C9: an authenticated delivery acts by its event type: payment.captured
\* leaves the booking named by notes.bookingId paid with the flag false,
\* payment.failed leaves it payment_failed with the flag true, any other
\* event is acknowledged with 200.
C9_EventTypeDecides ==
  \A p \in Procs :
     (pc[p] = "done" /\ Authenticated(p) /\ req[p].event.hasPayment) =>
       LET e == req[p].event
           b == e.notesBookingId
       IN /\ (e.event = "payment.captured" /\ BookingExists(b)) =>
               /\ bookings[b].status = "paid"
               /\ ~equipment[bookings[b].equipmentId].availability
          /\ (e.event = "payment.failed" /\ BookingExists(b)) =>
               /\ bookings[b].status = "payment_failed"
               /\ equipment[bookings[b].equipmentId].availability
          /\ e.event \notin {"payment.captured", "payment.failed"} => resp[p] = 200

\* The delivery in slot p meets a configured secret without the signature
\* of its body: the header is missing or differs from HMAC(secret, body).
Forged(p) ==
  /\ req[p].kind = "webhook"
  /\ req[p].secret # "none"
  /\ \/ req[p].signature = NoSignature
     \/ req[p].signature # Hmac(req[p].secret, req[p].event)

\* C10: with a secret configured, a delivery whose signature is missing or
\* mismatched is answered 400 at once and changes no booking and no
\* equipment.
C10_ForgedRejected ==
  [][\A p \in Procs :
       (Forged(p) /\ pc[p] = "webhook_start" /\ pc'[p] # pc[p])
         => /\ pc'[p] = "done"
            /\ resp'[p] = 400
            /\ UNCHANGED <<equipment, bookings, orders, receipts, reviews>>]_vars

\* A forged capture of an open booking was turned away.
C10_Witness ==
  \E p \in Procs :
     /\ Forged(p)
     /\ pc[p] = "done"
     /\ resp[p] = 400
     /\ req[p].body = "array"
     /\ req[p].signature # NoSignature
     /\ req[p].event.status = "captured"
     /\ req[p].event.id # "none"
     /\ BookingExists(req[p].event.order_id)
     /\ bookings[req[p].event.order_id].status = "awaiting_payment"

\* C11: whenever no booking of an equipment is awaiting_payment or paid, the
\* equipment's availability flag is true (stated between requests).
C11_NoHoldImpliesAvailable ==
  Quiescent =>
    \A e \in DOMAIN equipment :
       (\A i \in DOMAIN bookings :
           bookings[i].equipmentId = e => ~IsHolding(bookings[i].status))
         => equipment[e].availability

\* C12: once a booking is paid, no step of a Create, of a verify-payment
\* call or of a webhook delivery changes its status.
C12_PaidIsTerminal ==
  [][\A b \in DOMAIN bookings :
       (bookings[b].status = "paid" /\ \A p \in Procs : pc[p] # "status_start")
         => bookings'[b].status = "paid"]_vars

\* Calendar day of a timestamp.
DayOf(t) == t \div MsPerDay

\* Some calendar day lies in the day range of [bs, be] and in that of [s, e].
DaysIntersect(bs, be, s, e) ==
  \E d \in 0..MaxDay :
     /\ DayOf(bs) <= d /\ d <= DayOf(be)
     /\ DayOf(s) <= d /\ d <= DayOf(e)

\* Dates a query may name.
QueryDates == DateInputs \ {-1}

\* C13: checkEquipmentAvailability answers true exactly when the equipment
\* exists, its flag is true, and no paid or awaiting_payment booking of it
\* has a day range that intersects the day range of the query [s, t],
\* s <= t.
C13_IsAvailableExact ==
  \A e \in EquipIdInputs, s \in QueryDates, t \in QueryDates :
     s <= t =>
       (checkEquipmentAvailability(e, s, t)
          <=> /\ EquipmentExists(e)
              /\ equipment[e].availability
              /\ \A i \in DOMAIN bookings :
                    (bookings[i].equipmentId = e /\ IsHolding(bookings[i].status))
                      => ~DaysIntersect(bookings[i].startDate, bookings[i].endDate, s, t))

\* Queries whose day range intersects that of booking b.
QueriesOver(b) ==
  {q \in QueryDates \X QueryDates :
     q[1] <= q[2] /\ DaysIntersect(bookings[b].startDate, bookings[b].endDate, q[1], q[2])}

\* In the table bk, a booking of b's equipment other than b is awaiting
\* payment or paid and its day range intersects that of the query q.
OtherHolder(bk, b, q) ==
  \E i \in DOMAIN bk :
     /\ i # b
     /\ bk[i].equipmentId = bk[b].equipmentId
     /\ IsHolding(bk[i].status)
     /\ DaysIntersect(bk[i].startDate, bk[i].endDate, q[1], q[2])

\* C14: in the state right after a step that moves booking B into
\* awaiting_payment or paid, checkEquipmentAvailability is false for every
\* query whose day range intersects B's; in the state right after a step
\* that moves B to payment_failed it is true for every such query that no
\* other awaiting_payment or paid booking of the equipment intersects.
C14_AvailabilityFollowsBooking ==
  [][\A b \in DOMAIN bookings :
       LET e == bookings[b].equipmentId
       IN /\ (bookings'[b].status # bookings[b].status /\ IsHolding(bookings'[b].status)) =>
               \A q \in QueriesOver(b) :
                  ~checkEquipmentAvailability(e, q[1], q[2])'
          /\ (bookings'[b].status # bookings[b].status
                /\ bookings'[b].status = "payment_failed") =>
               \A q \in QueriesOver(b) :
                  ~OtherHolder(bookings', b, q)
                    => checkEquipmentAvailability(e, q[1], q[2])']_vars

\* The Create in slot p is authenticated, names parsable dates, has not
\* inserted its row yet, and its equipment is missing or not available for
\* the requested range.
NotAdmissible(p) ==
  /\ pc[p] \in {"create_start", "create_check_equipment", "create_check_bookings"}
  /\ req[p].userId # 0
  /\ req[p].startDate # -1 /\ req[p].endDate # -1
  /\ ~checkEquipmentAvailability(req[p].equipmentId, req[p].startDate, req[p].endDate)

\* C15: a Create whose equipment does not exist or is not available for the
\* requested range never reaches the insert: it is answered 404 or 400 and
\* writes no booking, requests no order and leaves the flag alone.
C15_InadmissibleCreateRejected ==
  [][\A p \in Procs :
       (NotAdmissible(p) /\ pc'[p] # pc[p])
         => /\ pc'[p] \in {"create_check_equipment", "create_check_bookings", "done"}
            /\ pc'[p] = "done" => resp'[p] \in {400, 404}
            /\ UNCHANGED <<equipment, bookings, orders>>]_vars

\* A Create was turned away by the booking check alone: the flag is true
\* and a holding booking covers the requested range.
C15_Witness ==
  \E p \in Procs :
     /\ pc[p] = "done"
     /\ resp[p] = 400
     /\ req[p].kind = "create"
     /\ req[p].userId # 0
     /\ req[p].startDate # -1 /\ req[p].endDate # -1
     /\ req[p].startDate <= req[p].endDate
     /\ req[p].bookingId = 0
     /\ EquipmentAvailable(req[p].equipmentId)
     /\ ~NoConflictingBooking(req[p].equipmentId, req[p].startDate, req[p].endDate)

\* C16: a Create whose startDate is later than its endDate is rejected, so
\* no stored booking has its start after its end.
C16_NoReversedBooking ==
  \A i \in DOMAIN bookings : bookings[i].startDate <= bookings[i].endDate

\* The number of whole days needed to cover d milliseconds: the least n
\* with n days >= d.
DaysCovering(d) ==
  CHOOSE n \in 0..(MaxPriceDay + 1) :
     (n - 1) * MsPerDay < d /\ d <= n * MsPerDay

\* C17: every booking stored with startDate <= endDate is priced at the
\* daily rate times (the days from start to end, rounded up, plus one); a
\* booking from day 1 to day 3 at 500 costs 1500 and a booking that starts
\* and ends at the same instant costs the daily rate.
C17_TotalPrice ==
  \A i \in DOMAIN bookings :
     LET b == bookings[i]
         rate == equipment[b.equipmentId].dailyRate
     IN b.startDate <= b.endDate =>
          /\ b.totalPrice = rate * (DaysCovering(b.endDate - b.startDate) + 1)
          /\ (b.startDate = MsPerDay /\ b.endDate = 3 * MsPerDay /\ rate = 500)
               => b.totalPrice = 1500
          /\ b.startDate = b.endDate => b.totalPrice = rate

\* Two priced bookings are stored together: day 1 to day 3 at 500 a day,
\* and one that ends at the instant it starts.
C17_Witness ==
  /\ \E i \in DOMAIN bookings :
        /\ bookings[i].startDate = MsPerDay
        /\ bookings[i].endDate = 3 * MsPerDay
        /\ equipment[bookings[i].equipmentId].dailyRate = 500
        /\ bookings[i].totalPrice = 1500
  /\ \E i \in DOMAIN bookings :
        /\ bookings[i].startDate = bookings[i].endDate
        /\ bookings[i].totalPrice = equipment[bookings[i].equipmentId].dailyRate

\* The bookings of the user for the equipment that are paid and not rated.
EligibleBookings(userId, equipmentId) ==
  {i \in DOMAIN bookings :
     /\ bookings[i].userId = userId
     /\ bookings[i].equipmentId = equipmentId
     /\ bookings[i].status = "paid"
     /\ ~bookings[i].isRated}

\* The review in slot p comes from a signed-in user and carries a whole
\* rating from 1 to 5 and a comment of 10 to 500 characters.
WellFormedReview(p) ==
  /\ req[p].kind = "review"
  /\ req[p].userId # 0
  /\ ~req[p].rating.half
  /\ req[p].rating.units \in 1..5
  /\ req[p].comment \in 10..500

\* C18: a well-formed review by R for E goes through exactly when R has a
\* paid, unrated booking of E: then one review row is inserted, that
\* booking becomes rated and the answer is 200; otherwise the answer is 400
\* and nothing is written.
C18_ReviewGate ==
  [][\A p \in Procs :
       (WellFormedReview(p) /\ pc'[p] # pc[p]) =>
          LET eligible == EligibleBookings(req[p].userId, req[p].equipmentId)
          IN /\ pc[p] = "review_start" =>
                  IF eligible # {}
                  THEN /\ pc'[p] = "review_insert"
                       /\ req'[p].bookingId \in eligible
                       /\ UNCHANGED <<bookings, reviews>>
                  ELSE /\ pc'[p] = "done"
                       /\ resp'[p] = 400
                       /\ UNCHANGED <<bookings, reviews>>
             /\ pc[p] = "review_insert" =>
                  /\ pc'[p] = "review_mark"
                  /\ Len(reviews') = Len(reviews) + 1
                  /\ SubSeq(reviews', 1, Len(reviews)) = reviews
                  /\ reviews'[Len(reviews')].userId = req[p].userId
                  /\ reviews'[Len(reviews')].equipmentId = req[p].equipmentId
                  /\ UNCHANGED bookings
             /\ pc[p] = "review_mark" =>
                  /\ pc'[p] = "done"
                  /\ resp'[p] = 200
                  /\ req[p].bookingId \in eligible
                  /\ bookings'[req[p].bookingId].isRated
                  /\ UNCHANGED reviews]_vars

\* The second of two submissions against a single eligible booking has been
\* turned away: the renter's only booking of the equipment is paid and
\* already rated, one review is stored, and the answer is 400.
C18_Witness ==
  \E p \in Procs :
     /\ pc[p] = "done"
     /\ resp[p] = 400
     /\ WellFormedReview(p)
     /\ Len(reviews) = 1
     /\ reviews[1].userId = req[p].userId
     /\ reviews[1].equipmentId = req[p].equipmentId
     /\ Cardinality({i \in DOMAIN bookings :
                       /\ bookings[i].userId = req[p].userId
                       /\ bookings[i].equipmentId = req[p].equipmentId
                       /\ bookings[i].status = "paid"}) = 1
     /\ \A i \in DOMAIN bookings :
           (bookings[i].userId = req[p].userId /\ bookings[i].status = "paid")
             => bookings[i].isRated

\* C19: when a review succeeds while the renter has paid, unrated bookings
\* of the equipment, the booking that becomes rated is the one of them
\* created last (booking ids are serial, and with requests served one at a
\* time a row with a greater id is created later), and every other booking
\* keeps its rated flag.
C19_LatestEligibleRated ==
  [][\A p \in Procs :
       (pc[p] = "review_mark" /\ pc'[p] = "done" /\ resp'[p] = 200) =>
          LET eligible == EligibleBookings(req[p].userId, req[p].equipmentId)
              latest == CHOOSE i \in eligible : \A j \in eligible : j <= i
          IN eligible # {} =>
                \A i \in DOMAIN bookings :
                   bookings'[i].isRated = (bookings[i].isRated \/ i = latest)]_vars

\* The review in slot p comes from a signed-in user and its rating is not
\* a whole number from 1 to 5, or its comment is shorter than 10 or longer
\* than 500 characters.
IllFormedReview(p) ==
  /\ req[p].kind = "review"
  /\ req[p].userId # 0
  /\ \/ req[p].rating.half
     \/ req[p].rating.units \notin 1..5
     \/ req[p].comment < 10
     \/ req[p].comment > 500

\* C20: a review whose rating is not an integer in 1..5, or whose comment
\* is shorter than 10 or longer than 500 characters, is turned away by the
\* validation with 400 before any write is attempted.
C20_IllFormedRejected ==
  [][\A p \in Procs :
       (IllFormedReview(p) /\ pc[p] = "review_start" /\ pc'[p] # pc[p]) =>
          /\ pc'[p] = "done"
          /\ resp'[p] = 400
          /\ UNCHANGED <<bookings, reviews>>]_vars

\* Some booking of equipment e is awaiting payment or paid.
HasHoldingBooking(e) ==
  \E i \in DOMAIN bookings :
     bookings[i].equipmentId = e /\ IsHolding(bookings[i].status)

\* C21: while a booking of an equipment is awaiting payment or paid, the
\* writes of PATCH /api/equipment/:id and of
\* PATCH /api/equipment/:id/availability leave that equipment's
\* availability flag as it was.
C21_OwnerEditsKeepFlag ==
  [][\A p \in Procs :
       pc[p] \in {"edit_write", "availability_write"} =>
          \A e \in DOMAIN equipment :
             HasHoldingBooking(e) =>
                /\ e \in DOMAIN equipment'
                /\ equipment'[e].availability = equipment[e].availability]_vars

\* C22: the admin override accepts the targets approved and rejected, from
\* any current status: it writes the booking's status and nothing else (the
\* order id, payment id and rated flag of the booking, every other booking
\* and the equipment stay as they were); any other target is answered 400
\* and writes nothing.
C22_AdminOverride ==
  [][\A p \in Procs :
       (pc[p] = "status_start" /\ req[p].caller.isAdmin /\ pc'[p] = "done") =>
          LET b == req[p].bookingId
              target == req[p].status
          IN /\ UNCHANGED equipment
             /\ IF target \in {"approved", "rejected"} /\ BookingExists(b)
                THEN /\ resp'[p] = 200
                     /\ bookings' = [bookings EXCEPT ![b].status = target]
                     /\ bookings'[b].razorpayOrderId = bookings[b].razorpayOrderId
                     /\ bookings'[b].razorpayPaymentId = bookings[b].razorpayPaymentId
                     /\ bookings'[b].isRated = bookings[b].isRated
                ELSE /\ resp'[p] \in {400, 500}
                     /\ target \notin {"approved", "rejected"} => resp'[p] = 400
                     /\ UNCHANGED bookings]_vars

\* The override has moved a paid booking to rejected: the payment id is
\* still on the row and the equipment is still locked.
C22_Witness ==
  \E p \in Procs :
     /\ pc[p] = "done"
     /\ resp[p] = 200
     /\ req[p].kind = "status"
     /\ req[p].status = "rejected"
     /\ bookings[req[p].bookingId].status = "rejected"
     /\ bookings[req[p].bookingId].razorpayPaymentId # "none"
     /\ bookings[req[p].bookingId].razorpayOrderId # 0
     /\ ~equipment[bookings[req[p].bookingId].equipmentId].availability

\* The request in slot p comes from a caller without rights over the row
\* it addresses: an equipment edit or delete by someone who is neither the
\* owner nor an admin, an availability edit by someone who is not the
\* owner, a status override by a non-admin, a verify-payment by someone who
\* is not the booking's renter.
LacksRights(p) ==
  /\ "caller" \in DOMAIN req[p]
  /\ \/ /\ req[p].kind \in {"edit", "delete"}
        /\ EquipmentExists(req[p].equipmentId)
        /\ equipment[req[p].equipmentId].ownerId # req[p].caller.id
        /\ ~req[p].caller.isAdmin
     \/ /\ req[p].kind = "availability"
        /\ EquipmentExists(req[p].equipmentId)
        /\ equipment[req[p].equipmentId].ownerId # req[p].caller.id
     \/ /\ req[p].kind = "status"
        /\ ~req[p].caller.isAdmin
     \/ /\ req[p].kind = "verify"
        /\ BookingExists(req[p].bookingId)
        /\ bookings[req[p].bookingId].userId # req[p].caller.id

\* C23: a request from a caller without rights over the booking or the
\* equipment it addresses changes no booking and no equipment, and is not
\* answered 200.
C23_NoRightsNoMutation ==
  [][\A p \in Procs :
       (LacksRights(p) /\ pc'[p] # pc[p]) =>
          /\ UNCHANGED <<equipment, bookings>>
          /\ pc'[p] = "done" => resp'[p] \in {400, 401, 403, 404}]_vars

\* C24: no booking row is ever stored with status pending.
C24_NoPendingRow ==
  \A i \in DOMAIN bookings : bookings[i].status # "pending"

\* C25: a booking whose status is payment_failed, approved or rejected is
\* never moved to paid.
C25_FailedNeverPaid ==
  [][\A b \in DOMAIN bookings :
       bookings[b].status \in {"payment_failed", "approved", "rejected"}
         => bookings'[b].status # "paid"]_vars

\* C26: when a Create, a Confirm or a Fail ends, whether or not one of its
\* storage writes or gateway calls failed, the pair (booking status,
\* equipment flag) is the transition's completed post-state or the pair the
\* request found: awaiting_payment/false or payment_failed/true after a
\* Create that inserted its row, paid/false or unchanged after a Confirm,
\* payment_failed/true or unchanged after a Fail.
C26_NoMixedPair ==
  \A p \in Procs :
     pc[p] = "done" =>
        LET r == req[p]
        IN /\ (r.kind = "create" /\ r.bookingId # 0) =>
                PairOf(r.bookingId) \in {<<"awaiting_payment", FALSE>>,
                                         <<"payment_failed", TRUE>>}
           /\ (r.kind = "verify" /\ r.complete
                 /\ verifyPaymentSignature(r.orderId, r.paymentId, r.signature)) =>
                PairOf(r.bookingId) \in {r.pre, <<"paid", FALSE>>}
           /\ (r.kind = "webhook" /\ handleWebhookEvent(r.event).status = "success") =>
                PairOf(handleWebhookEvent(r.event).bookingId)
                  \in {r.pre, <<"paid", FALSE>>}
           /\ (r.kind = "webhook" /\ handleWebhookEvent(r.event).status = "failed") =>
                PairOf(handleWebhookEvent(r.event).bookingId)
                  \in {r.pre, <<"payment_failed", TRUE>>}

\* No handler is between two of its awaited operations.
AllEnded == \A q \in Procs : pc[q] \in {"idle", "done"}

\* C27: once the verify-payment call with the gateway's signature for a
\* booking that awaited payment has ended, and so has every captured
\* delivery that ran beside it, the booking is paid, carries the payment
\* id the client presented, and its equipment's flag is false.
C27_ConfirmPathsAgree ==
  \A p \in Procs :
     (pc[p] = "done" /\ req[p].kind = "verify" /\ AllEnded) =>
        LET b == req[p].bookingId
        IN /\ resp[p] = 200
           /\ bookings[b].status = "paid"
           /\ bookings[b].razorpayPaymentId = req[p].paymentId
           /\ ~equipment[bookings[b].equipmentId].availability

\* Both paths have ended for the same booking: the verify-payment call was
\* answered 200 and the captured delivery wrote the booking, locked the
\* equipment and produced a receipt.
C27_Witness ==
  \E p \in Procs, q \in Procs :
     /\ pc[p] = "done" /\ req[p].kind = "verify" /\ resp[p] = 200
     /\ pc[q] = "done" /\ req[q].kind = "webhook" /\ resp[q] = 200
     /\ req[q].bookingId = req[p].bookingId
     /\ req[q].paymentId = req[p].paymentId
     /\ receipts[req[p].bookingId] > 0
     /\ bookings[req[p].bookingId].status = "paid"

\* The request r is a Confirm that addressed booking b: a verify-payment
\* call, or a delivery whose event handleWebhookEvent reads as a success.
IsConfirmOf(r, b) ==
  \/ r.kind = "verify" /\ r.bookingId = b
  \/ /\ r.kind = "webhook" /\ r.bookingId = b
     /\ handleWebhookEvent(r.event).status = "success"

\* The request r is a Fail that addressed booking b.
IsFailOf(r, b) ==
  /\ r.kind = "webhook" /\ r.bookingId = b
  /\ handleWebhookEvent(r.event).status = "failed"

\* C28: after a Confirm and a Fail of the same booking have both ended,
\* the flag agrees with the status: false if the booking ended paid, true
\* if it ended payment_failed.
C28_FlagAgreesWithStatus ==
  \A p \in Procs, q \in Procs, b \in DOMAIN bookings :
     (pc[p] = "done" /\ pc[q] = "done" /\ IsConfirmOf(req[p], b) /\ IsFailOf(req[q], b)) =>
        LET flag == equipment[bookings[b].equipmentId].availability
        IN /\ bookings[b].status = "paid" => ~flag
           /\ bookings[b].status = "payment_failed" => flag

\* C29: verify-payment moves a booking to paid only when the order id it
\* presents is the one stored on that booking: a validly signed pair for
\* another order the gateway has minted never marks the booking paid.
C29_OnlyStoredOrderConfirms ==
  [][\A p \in Procs :
       (/\ pc[p] = "verify_paid"
        /\ req[p].orderId <= orders
        /\ bookings'[req[p].bookingId].status = "paid")
         => req[p].orderId = bookings[req[p].bookingId].razorpayOrderId]_vars

\* Review rows by user u for equipment e.
ReviewsBy(u, e) ==
  {i \in DOMAIN reviews : reviews[i].userId = u /\ reviews[i].equipmentId = e}

\* Bookings of equipment e by user u that are marked rated.
RatedBookings(u, e) ==
  {i \in DOMAIN bookings :
     bookings[i].userId = u /\ bookings[i].equipmentId = e /\ bookings[i].isRated}

\* C30: whenever no review request is in flight, every renter has as many
\* review rows for an equipment as rated bookings of it.
C30_ReviewsMatchRated ==
  (\A p \in Procs : pc[p] \notin {"review_start", "review_insert", "review_mark"})
    => \A e \in EquipIds :
          Cardinality(ReviewsBy(Renter.id, e)) = Cardinality(RatedBookings(Renter.id, e))

====
